---- MODULE Spec2Model ----
(***************************************************************************)
(* A model of stackapi.py: the StackAPI client (constructor with its site  *)
(* directory lookup, fetch with its pagination loop, send_data), run       *)
(* against a server whose answers are drawn from a small set of bodies.    *)
(*                                                                         *)
(* A Python dict is a function whose DOMAIN is the set of keys present, so *)
(* that `k in d` is k \in DOMAIN d and d[k] on a missing key is a KeyError. *)
(* A text (URL path, joined ids) is a sequence of tokens; concatenation is *)
(* \o.  None is "None" for string-valued fields and the empty function for *)
(* dict/text-valued ones.                                                  *)
(***************************************************************************)
EXTENDS Integers, Sequences, FiniteSets, TLC

VARIABLES self, pc, name, call, trace, outcome, served, thr, writer

vars == <<self, pc, name, call, trace, outcome, served, thr, writer>>

\* The threads that share one client in the concurrent specification
Threads == {1, 2}

\* The environment answers at most this many requests of user calls; the
\* last one it answers never advertises a further page.
MaxRequests == 3

None == "None"
NoDict == <<>>

\* Python truthiness of a string-or-None value
Truthy(v) == v # None /\ v # ""

\* kwargs[k] if kwargs.get(k) else default, for an integer option
OptInt(kw, k, default) == IF k \in DOMAIN kw /\ kw[k] # 0 THEN kw[k] ELSE default

\* kwargs[k] if kwargs.get(k) else None, for a string option
OptStr(kw, k) == IF k \in DOMAIN kw /\ Truthy(kw[k]) THEN kw[k] ELSE None

Has(d, k) == k \in DOMAIN d

Min(a, b) == IF a < b THEN a ELSE b

----------------------------------------------------------------------------
(* Text helpers: str() of an integer and str.join                          *)

Digit(d) ==
  CASE d = 0 -> "0" [] d = 1 -> "1" [] d = 2 -> "2" [] d = 3 -> "3"
    [] d = 4 -> "4" [] d = 5 -> "5" [] d = 6 -> "6" [] d = 7 -> "7"
    [] d = 8 -> "8" [] d = 9 -> "9"

RECURSIVE StrNat(_)
StrNat(n) == IF n < 10 THEN <<Digit(n)>> ELSE StrNat(n \div 10) \o <<Digit(n % 10)>>

\* str(x) for an integer x
Str(x) == IF x < 0 THEN <<"-">> \o StrNat(0 - x) ELSE StrNat(x)

RECURSIVE Join(_, _)
\* sep.join(texts)
Join(sep, texts) ==
  IF Len(texts) = 0 THEN <<>>
  ELSE IF Len(texts) = 1 THEN texts[1]
  ELSE texts[1] \o <<sep>> \o Join(sep, Tail(texts))

\* dict.update: the entries of upd override those of d
Update(d, upd) ==
  [k \in DOMAIN d \cup DOMAIN upd |-> IF k \in DOMAIN upd THEN upd[k] ELSE d[k]]

\* d without key k (dict.pop)
Pop(d, k) == [j \in DOMAIN d \ {k} |-> d[j]]

\* Faulty assembly: only the last page's items
FlattenLastOnly(data) ==
  IF Len(data) = 0 THEN <<>> ELSE data[Len(data)].items

RECURSIVE Flatten(_)
\* r = []; for d in data: r.extend(d['items'])
Flatten(data) ==
  IF Len(data) = 0 THEN <<>> ELSE data[1].items \o Flatten(Tail(data))

----------------------------------------------------------------------------
(* The server                                                              *)

\* The network's site directory, as the "sites" endpoint lists it.
SiteDirectory ==
  << [api_site_parameter |-> "stackoverflow", name |-> "Stack Overflow"],
     [api_site_parameter |-> "superuser",     name |-> "Super User"],
     [api_site_parameter |-> "serverfault",   name |-> "Server Fault"] >>

\* The page of the directory the server returns for ?page=&pagesize=
DirBody(page, pagesize) ==
  [ items |-> SubSeq(SiteDirectory, (page - 1) * pagesize + 1,
                     Min(page * pagesize, Len(SiteDirectory))),
    has_more |-> page * pagesize < Len(SiteDirectory),
    quota_max |-> 300,
    quota_remaining |-> 299 ]

Opt(k, vals) == {NoDict} \cup {k :> v : v \in vals}

Core1 == [items |-> <<1>>, quota_max |-> 300, quota_remaining |-> 200]
Core2 == [items |-> <<2, 3>>, quota_max |-> 300, quota_remaining |-> 100]

\* Well-formed wrapper objects, with has_more and backoff present or not
PageBodies ==
  {c @@ h : c \in {Core1, Core2}, h \in Opt("has_more", BOOLEAN)}
  \cup {Core1 @@ h @@ b : h \in Opt("has_more", BOOLEAN), b \in {"backoff" :> v : v \in {0, 2}}}

TotalBodies ==
  { Core1 @@ [has_more |-> TRUE, total |-> 7],
    Core2 @@ [has_more |-> FALSE, total |-> 9] }

\* Wrapper objects that lack a key the result assembly reads
MalformedBodies ==
  { [items |-> <<1>>, has_more |-> FALSE],
    [has_more |-> FALSE, quota_max |-> 300, quota_remaining |-> 200] }

\* Bodies with an error_id, with and without the two companion fields.  An
\* error_id is written as its decimal text, so that the error field of
\* StackAPIError holds values of one kind (an id or an exception's text).
ErrorBodies ==
  {[error_id |-> "502"] @@ n @@ m :
      n \in Opt("error_name", {"throttle_violation"}),
      m \in Opt("error_message", {"too many requests"})}
  \cup {[error_id |-> "401", error_name |-> "access_denied",
         error_message |-> "no token", has_more |-> TRUE, backoff |-> 2] @@ Core1,
        [error_id |-> "401", error_message |-> "no token", has_more |-> TRUE] @@ Core1}

SubValue == [items |-> <<4>>, has_more |-> FALSE, quota_max |-> 50, quota_remaining |-> 40]

\* Bodies that carry a nested object under the key "sub"
SubBodies ==
  { Core1 @@ [has_more |-> FALSE, sub |-> SubValue],
    Core2 @@ [has_more |-> TRUE, sub |-> SubValue] }

Bodies == PageBodies \cup TotalBodies \cup MalformedBodies \cup ErrorBodies \cup SubBodies

DeclaresMore(b) == Has(b, "has_more") /\ b.has_more

\* What the server may answer to a request
ServerAnswers(endpoint, query) ==
  IF endpoint = "sites" /\ ~Has(query, "site")
    THEN {DirBody(query.page, query.pagesize)}
    ELSE IF served < MaxRequests THEN Bodies
         ELSE {b \in Bodies : ~DeclaresMore(b)}

----------------------------------------------------------------------------
(* Inputs                                                                  *)

\* Constructor arguments: name, version, **kwargs
CtorArgs ==
  { [name |-> "stackoverflow", version |-> "2.2", kwargs |-> NoDict],
    [name |-> "stackoverflow", version |-> "2.2",
       kwargs |-> [max_pages |-> 1, page_size |-> 1]],
    [name |-> "serverfault", version |-> "2.2",
       kwargs |-> [max_pages |-> 1, page_size |-> 1]],
    [name |-> "stackoverflow", version |-> "2.2",
       kwargs |-> [max_pages |-> 2, page_size |-> 1]],
    [name |-> "serverfault", version |-> "2.1",
       kwargs |-> [max_pages |-> 2, page_size |-> 2, key |-> "K",
                   access_token |-> "T", proxy |-> "proxy1"]],
    [name |-> "superuser", version |-> "2.2",
       kwargs |-> [max_pages |-> 0, page_size |-> 0, key |-> "", access_token |-> ""]],
    [name |-> "nosuchsite", version |-> "2.2", kwargs |-> NoDict],
    [name |-> "", version |-> "2.2", kwargs |-> NoDict],
    [name |-> None, version |-> "2.2", kwargs |-> NoDict] }

\* Arguments of fetch and send_data: endpoint, page, key, filter, **kwargs
CallArgs ==
  { [endpoint |-> "questions", page |-> 1, key |-> None, filter |-> "default",
       kwargs |-> NoDict],
    [endpoint |-> "questions", page |-> 2, key |-> None, filter |-> "withbody",
       kwargs |-> [sort |-> "votes"]],
    [endpoint |-> "answers", page |-> 1, key |-> None, filter |-> "default",
       kwargs |-> [ids |-> <<1, 2, 3>>]],
    [endpoint |-> "answers", page |-> 1, key |-> None, filter |-> "default",
       kwargs |-> [ids |-> <<100, 7>>]],
    [endpoint |-> "answers", page |-> 1, key |-> None, filter |-> "default",
       kwargs |-> [ids |-> <<>>]],
    [endpoint |-> "questions", page |-> 1, key |-> "sub", filter |-> "default",
       kwargs |-> NoDict],
    [endpoint |-> "questions", page |-> 1, key |-> None, filter |-> "default",
       kwargs |-> [site |-> "evil", pagesize |-> 5]],
    [endpoint |-> "", page |-> 1, key |-> None, filter |-> "default",
       kwargs |-> NoDict],
    [endpoint |-> None, page |-> 1, key |-> None, filter |-> "default",
       kwargs |-> [ids |-> <<1, 2, 3>>]] }

----------------------------------------------------------------------------
(* State                                                                   *)

NoCall ==
  [ op |-> None, caller |-> None, endpoint |-> None, params |-> NoDict,
    ids |-> <<>>, key |-> None, data |-> <<>>, run_cnt |-> 0, backoff |-> 0,
    total |-> 0, base_url |-> <<>> ]

NoOutcome == [kind |-> None, op |-> None]

\* A thread that has not called fetch yet
NoThread ==
  [ pc |-> "ready", call |-> NoCall, response |-> NoDict, ok |-> FALSE,
    url |-> NoDict, outcome |-> NoOutcome ]

Unconstructed ==
  [ proxy |-> None, max_pages |-> 0, page_size |-> 0, key |-> None,
    access_token |-> None, _endpoint |-> None, _api_key |-> None,
    _name |-> None, _version |-> None, _previous_call |-> NoDict,
    _base_url |-> <<>> ]

Init ==
  /\ self = Unconstructed
  /\ pc = "new"
  /\ name = None
  /\ call = NoCall
  /\ trace = <<>>
  /\ outcome = NoOutcome
  /\ served = 0
  /\ thr = [t \in Threads |-> NoThread]
  /\ writer = 0

----------------------------------------------------------------------------
(* fetch and send_data: request construction                               *)

\* ';'.join(str(x) for x in kwargs['ids']); None (falsy, like '') without ids
JoinIds(kwargs) ==
  IF Has(kwargs, "ids")
    THEN Join(";", [i \in 1..Len(kwargs.ids) |-> Str(kwargs.ids[i])])
    ELSE <<>>

\* Faulty order: the site is set before the caller's parameters are merged
BuildParamsSiteFirst(s, a) ==
  LET p0 == [pagesize |-> s.page_size, page |-> a.page, filter |-> a.filter]
      p1 == IF Truthy(s.key) THEN Update(p0, "key" :> s.key) ELSE p0
      p2 == IF Truthy(s.access_token)
              THEN Update(p1, "access_token" :> s.access_token) ELSE p1
      p3 == IF Truthy(s._api_key) THEN Update(p2, "site" :> s._api_key) ELSE p2
      kw == IF Has(a.kwargs, "ids") THEN Pop(a.kwargs, "ids") ELSE a.kwargs
  IN  Update(p3, kw)

\* The params dict both operations build before the first request
BuildParams(s, a) ==
  LET p0 == [pagesize |-> s.page_size, page |-> a.page, filter |-> a.filter]
      p1 == IF Truthy(s.key) THEN Update(p0, "key" :> s.key) ELSE p0
      p2 == IF Truthy(s.access_token)
              THEN Update(p1, "access_token" :> s.access_token) ELSE p1
      kw == IF Has(a.kwargs, "ids") THEN Pop(a.kwargs, "ids") ELSE a.kwargs
      p3 == Update(p2, kw)
  IN  IF Truthy(s._api_key) THEN Update(p3, "site" :> s._api_key) ELSE p3

\* Faulty URL: the ids are never appended
FetchUrlNoIds(s, c) == s._base_url \o <<c.endpoint, "/">>

\* "{}{}/".format(self._base_url, endpoint), plus the ids when truthy
FetchUrl(s, c) ==
  LET base == s._base_url \o <<c.endpoint, "/">>
  IN  IF c.ids # <<>> THEN base \o c.ids ELSE base

\* send_data's URL
SendUrl(s, c) == s._base_url \o <<c.endpoint, "/">>

\* Faulty check: only a missing endpoint is rejected, '' is let through
EndpointIsNone(endpoint) == endpoint = None

\* `if not endpoint`
EndpointMissing(endpoint) == ~Truthy(endpoint)

\* Faulty guard: the loop has no page limit
LoopGuardAlways(run_cnt, max_pages) == TRUE

\* Faulty guard: the loop gives up one page before the limit
LoopGuardEarly(run_cnt, max_pages) == run_cnt < max_pages - 1

\* `while run_cnt <= self.max_pages`
LoopGuard(run_cnt, max_pages) == run_cnt <= max_pages

\* The try block reads error_id, error_name and error_message and raises;
\* a KeyError on any of the three is taken to mean "no error"
ErrorReported(response) ==
  Has(response, "error_id") /\ Has(response, "error_name")
    /\ Has(response, "error_message")

\* Faulty sleep: without the extra second
SleepSecsExact(backoff) == backoff

\* The argument of sleep()
SleepSecs(backoff) == backoff + 1

\* Faulty increment: a page is skipped
NextParamsSkip(params, response) ==
  IF Has(response, "has_more") /\ response.has_more
    THEN [params EXCEPT !.page = @ + 2]
    ELSE params

\* `if 'has_more' in response and response['has_more']: params["page"] += 1`
NextParams(params, response) ==
  IF Has(response, "has_more") /\ response.has_more
    THEN [params EXCEPT !.page = @ + 1]
    ELSE params

\* The locals of fetch when it reaches its loop
FetchEnter(s, a, caller) ==
  [ op |-> "fetch", caller |-> caller, endpoint |-> a.endpoint,
    params |-> BuildParams(s, a), ids |-> JoinIds(a.kwargs), key |-> a.key,
    data |-> <<>>, run_cnt |-> 0, backoff |-> 0, total |-> 0, base_url |-> <<>> ]

\* The locals of send_data when it posts
SendEnter(s, a) ==
  [ op |-> "send_data", caller |-> "user", endpoint |-> a.endpoint,
    params |-> BuildParams(s, a), ids |-> JoinIds(a.kwargs), key |-> a.key,
    data |-> <<>>, run_cnt |-> 0, backoff |-> 0, total |-> 0, base_url |-> <<>> ]

----------------------------------------------------------------------------
(* Exceptions and how a call ends                                          *)

StackAPIError(url, error, code, message) ==
  [exc |-> "StackAPIError", url |-> url, error |-> error, code |-> code,
   message |-> message]

ValueError(msg) == [exc |-> "ValueError", msg |-> msg]

KeyError(k) == [exc |-> "KeyError", key |-> k]

\* Faulty wrapping: the exception's class name instead of its text as code
WrapErrorNamed(url, text) == StackAPIError(url, text, "ConnectionError", text)

\* raise StackAPIError(self._previous_call, str(e), str(e), str(e))
WrapError(url, text) == StackAPIError(url, text, text, text)

\* Faulty assignment: the URL is stored in another attribute
SetBaseUrl(s, url) == [s EXCEPT !._base_url = url.path \o <<"?">>]

\* self._previous_call = response.url
SetPreviousCall(s, url) == [s EXCEPT !._previous_call = url]

\* Faulty total: the last declared total is carried forward
PageTotalCarried(total, response) ==
  IF Has(response, "total") THEN response.total ELSE total

\* total = 0, then `if 'total' in response: total = response['total']`
PageTotal(total, response) ==
  IF Has(response, "total") THEN response.total ELSE 0

\* An exception leaves fetch or send_data; one raised inside the
\* constructor's lookup leaves the constructor too, and no client exists.
Raises(e, s) ==
  /\ self' = s
  /\ outcome' = e @@ [kind |-> "raise", op |-> IF call.caller = "__init__"
                                                THEN "__init__" ELSE call.op]
  /\ pc' = IF call.caller = "__init__" THEN "dead" ELSE "idle"
  /\ call' = NoCall
  /\ name' = None

\* The first entry of the listing whose api_site_parameter is n, 0 if none
FirstMatch(items, n) ==
  IF \E i \in 1..Len(items) : items[i].api_site_parameter = n
    THEN CHOOSE i \in 1..Len(items) :
           /\ items[i].api_site_parameter = n
           /\ \A j \in 1..(i - 1) : items[j].api_site_parameter # n
    ELSE 0

\* The rest of __init__ once its fetch('sites') has returned
InitScan(sites, s) ==
  LET m  == FirstMatch(sites.items, name)
      s2 == IF m = 0 THEN s
            ELSE [s EXCEPT !._name = sites.items[m].name,
                           !._api_key = sites.items[m].api_site_parameter]
  IN  /\ self' = s2
      /\ call' = NoCall
      /\ name' = None
      /\ IF ~Truthy(s2._name)
           THEN /\ outcome' = ValueError("Invalid Site Name provided")
                                @@ [kind |-> "raise", op |-> "__init__"]
                /\ pc' = "dead"
           ELSE /\ outcome' = [kind |-> "return", op |-> "__init__"]
                /\ pc' = "idle"

\* fetch or send_data returns result
Returns(result, s) ==
  IF call.caller = "__init__"
    THEN InitScan(result, s)
    ELSE /\ self' = s
         /\ outcome' = [kind |-> "return", op |-> call.op, result |-> result]
         /\ pc' = "idle"
         /\ call' = NoCall
         /\ name' = None

----------------------------------------------------------------------------
(* Operations                                                              *)

\* StackAPI.__init__, up to the first request of its fetch('sites')
StackAPI_init(a) ==
  /\ pc = "new"
  /\ UNCHANGED <<thr, writer>>
  /\ trace' = <<[ev |-> "CALL", op |-> "__init__", args |-> a]>>
  /\ served' = served
  /\ IF ~Truthy(a.name)
       THEN /\ outcome' = ValueError("No Site Name provided")
                            @@ [kind |-> "raise", op |-> "__init__"]
            /\ pc' = "dead"
            /\ UNCHANGED <<self, name, call>>
       ELSE LET s == [ proxy |-> OptStr(a.kwargs, "proxy"),
                       max_pages |-> OptInt(a.kwargs, "max_pages", 100),
                       page_size |-> OptInt(a.kwargs, "page_size", 100),
                       key |-> OptStr(a.kwargs, "key"),
                       access_token |-> OptStr(a.kwargs, "access_token"),
                       _endpoint |-> "sites",
                       _api_key |-> None,
                       _name |-> None,
                       _version |-> a.version,
                       _previous_call |-> NoDict,
                       _base_url |-> <<"https://api.stackexchange.com/", a.version, "/">> ]
            IN  /\ self' = s
                /\ name' = a.name
                /\ call' = FetchEnter(s, [endpoint |-> "sites", page |-> 1,
                                          key |-> None, filter |-> "!*L1*AY-85YllAr2)",
                                          kwargs |-> NoDict], "__init__")
                /\ pc' = "loop"
                /\ outcome' = NoOutcome

\* fetch(endpoint, page, key, filter, **kwargs), up to its loop
fetch(a) ==
  /\ pc = "idle"
  /\ UNCHANGED <<thr, writer>>
  /\ trace' = <<[ev |-> "CALL", op |-> "fetch", args |-> a]>>
  /\ served' = served
  /\ name' = name
  /\ IF EndpointMissing(a.endpoint)
       THEN /\ outcome' = ValueError("No end point provided.")
                            @@ [kind |-> "raise", op |-> "fetch"]
            /\ UNCHANGED <<self, pc, call>>
       ELSE /\ served < MaxRequests
            /\ self' = [self EXCEPT !._endpoint = a.endpoint]
            /\ call' = FetchEnter(self, a, "user")
            /\ pc' = "loop"
            /\ outcome' = NoOutcome

\* The head of fetch's while loop and the GET it issues
fetch_get ==
  /\ pc = "loop"
  /\ UNCHANGED <<thr, writer>>
  /\ UNCHANGED <<self, name, outcome>>
  /\ IF LoopGuard(call.run_cnt, self.max_pages)
       THEN LET c == [call EXCEPT !.run_cnt = @ + 1] IN
            /\ call' = [c EXCEPT !.base_url = FetchUrl(self, c)]
            /\ trace' = Append(trace, [ev |-> "GET", path |-> FetchUrl(self, c),
                                        query |-> c.params, form |-> NoDict])
            /\ served' = IF call.caller = "user" THEN served + 1 ELSE served
            /\ pc' = "wait"
       ELSE /\ pc' = "assemble"
            /\ UNCHANGED <<call, trace, served>>

\* requests.get raises ConnectionError
fetch_connection_error ==
  /\ pc = "wait"
  /\ UNCHANGED <<thr, writer>>
  /\ trace' = Append(trace, [ev |-> "FAIL", text |-> "connection refused"])
  /\ served' = served
  /\ Raises(WrapError(self._previous_call, "connection refused"), self)

\* requests.get returns a response whose body is not JSON
fetch_bad_json ==
  /\ pc = "wait"
  /\ UNCHANGED <<thr, writer>>
  /\ trace' = Append(trace, [ev |-> "RESP", ok |-> FALSE, text |-> "no JSON"])
  /\ served' = served
  /\ LET url == [path |-> call.base_url, query |-> call.params]
         s   == SetPreviousCall(self, url)
     IN  Raises(WrapError(s._previous_call, "no JSON"), s)

\* The statements of the loop body after a parsed response, given the locals
\* c and the value prev of self._previous_call when the error check runs:
\* how the iteration ends and, unless it raises, the locals it leaves
LoopBody(c, response, prev) ==
  IF ErrorReported(response)
    THEN [exit |-> "raise",
          exc |-> StackAPIError(prev, response.error_id, response.error_name,
                                response.error_message)]
  ELSE IF Truthy(c.key) /\ ~Has(response, c.key)
    THEN [exit |-> "raise", exc |-> KeyError(c.key)]
  ELSE
    LET datum   == IF Truthy(c.key) THEN response[c.key] ELSE response
        backoff == IF Has(response, "backoff") THEN response.backoff ELSE 0
    IN  [exit |-> IF DeclaresMore(response) THEN "continue" ELSE "break",
         call |-> [c EXCEPT !.data = Append(@, datum),
                            !.backoff = backoff,
                            !.total = PageTotal(c.total, response),
                            !.params = NextParams(@, response)]]

\* The result assembly after the loop: the exception or the result
Assemble(c) ==
  LET data == c.data IN
  IF \E i \in 1..Len(data) : ~Has(data[i], "items")
    THEN [exit |-> "raise", exc |-> KeyError("items")]
  ELSE IF Len(data) = 0
    THEN [exit |-> "raise", exc |-> [exc |-> "IndexError"]]
  ELSE LET last == data[Len(data)] IN
    IF ~Has(last, "has_more") THEN [exit |-> "raise", exc |-> KeyError("has_more")]
    ELSE IF ~Has(last, "quota_max")
      THEN [exit |-> "raise", exc |-> KeyError("quota_max")]
    ELSE IF ~Has(last, "quota_remaining")
      THEN [exit |-> "raise", exc |-> KeyError("quota_remaining")]
    ELSE [exit |-> "return",
          result |-> [ backoff |-> c.backoff,
                       has_more |-> last.has_more,
                       page |-> c.params.page,
                       quota_max |-> last.quota_max,
                       quota_remaining |-> last.quota_remaining,
                       total |-> c.total,
                       items |-> Flatten(data) ]]

\* A response arrives and the rest of the loop body runs
fetch_response ==
  /\ pc = "wait"
  /\ UNCHANGED <<thr, writer>>
  /\ served' = served
  /\ \E response \in ServerAnswers(call.endpoint, call.params) :
     LET url == [path |-> call.base_url, query |-> call.params]
         s   == SetPreviousCall(self, url)
         got == Append(trace, [ev |-> "RESP", ok |-> TRUE, body |-> response])
         r   == LoopBody(call, response, s._previous_call)
     IN  IF r.exit = "raise"
           THEN /\ trace' = got
                /\ Raises(r.exc, s)
           ELSE /\ trace' = IF Has(response, "backoff")
                              THEN Append(got, [ev |-> "SLEEP",
                                                secs |-> SleepSecs(r.call.backoff)])
                              ELSE got
                /\ self' = s
                /\ call' = r.call
                /\ pc' = IF r.exit = "continue" THEN "loop" ELSE "assemble"
                /\ UNCHANGED <<name, outcome>>

\* The result assembly after the loop
fetch_return ==
  /\ pc = "assemble"
  /\ UNCHANGED <<thr, writer>>
  /\ UNCHANGED <<trace, served>>
  /\ LET r == Assemble(call)
     IN  IF r.exit = "raise" THEN Raises(r.exc, self) ELSE Returns(r.result, self)

\* send_data(endpoint, page, key, filter, **kwargs), up to its POST
send_data(a) ==
  /\ pc = "idle"
  /\ UNCHANGED <<thr, writer>>
  /\ name' = name
  /\ IF EndpointMissing(a.endpoint)
       THEN /\ outcome' = ValueError("No end point provided.")
                            @@ [kind |-> "raise", op |-> "send_data"]
            /\ trace' = <<[ev |-> "CALL", op |-> "send_data", args |-> a]>>
            /\ UNCHANGED <<self, pc, call, served>>
       ELSE /\ served < MaxRequests
            /\ self' = [self EXCEPT !._endpoint = a.endpoint]
            /\ LET c == [SendEnter(self, a) EXCEPT !.base_url = SendUrl(self, SendEnter(self, a))]
               IN  /\ call' = c
                   /\ trace' = <<[ev |-> "CALL", op |-> "send_data", args |-> a],
                                  [ev |-> "POST", path |-> c.base_url,
                                   query |-> NoDict, form |-> c.params]>>
            /\ served' = served + 1
            /\ pc' = "post_wait"
            /\ outcome' = NoOutcome

\* requests.post raises ConnectionError, which send_data does not catch
send_connection_error ==
  /\ pc = "post_wait"
  /\ UNCHANGED <<thr, writer>>
  /\ trace' = Append(trace, [ev |-> "FAIL", text |-> "connection refused"])
  /\ served' = served
  /\ Raises([exc |-> "ConnectionError", text |-> "connection refused"], self)

\* response.json() raises ValueError, which send_data does not catch
send_bad_json ==
  /\ pc = "post_wait"
  /\ UNCHANGED <<thr, writer>>
  /\ trace' = Append(trace, [ev |-> "RESP", ok |-> FALSE, text |-> "no JSON"])
  /\ served' = served
  /\ Raises(ValueError("no JSON"),
            SetPreviousCall(self, [path |-> call.base_url, query |-> NoDict]))

\* The statements of send_data after a parsed response
send_response ==
  /\ pc = "post_wait"
  /\ UNCHANGED <<thr, writer>>
  /\ served' = served
  /\ \E response \in ServerAnswers(call.endpoint, call.params) :
       /\ trace' = Append(trace, [ev |-> "RESP", ok |-> TRUE, body |-> response])
       /\ LET url == [path |-> call.base_url, query |-> NoDict]
              s   == SetPreviousCall(self, url)
          IN  IF ErrorReported(response)
                THEN Raises(StackAPIError(s._previous_call, response.error_id,
                                          response.error_name,
                                          response.error_message), s)
              ELSE IF ~Has(response, "items") THEN Raises(KeyError("items"), s)
              ELSE IF ~Has(response, "has_more") THEN Raises(KeyError("has_more"), s)
              ELSE IF ~Has(response, "quota_max") THEN Raises(KeyError("quota_max"), s)
              ELSE IF ~Has(response, "quota_remaining")
                THEN Raises(KeyError("quota_remaining"), s)
              ELSE Returns([ has_more |-> response.has_more,
                             page |-> call.params.page,
                             quota_max |-> response.quota_max,
                             quota_remaining |-> response.quota_remaining,
                             items |-> response.items ], s)

Next ==
  \/ \E a \in CtorArgs : StackAPI_init(a)
  \/ \E a \in CallArgs : fetch(a)
  \/ fetch_get
  \/ fetch_connection_error
  \/ fetch_bad_json
  \/ fetch_response
  \/ fetch_return
  \/ \E a \in CallArgs : send_data(a)
  \/ send_connection_error
  \/ send_bad_json
  \/ send_response

Spec == Init /\ [][Next]_vars

----------------------------------------------------------------------------
(* Two threads calling fetch on one client                                 *)

\* The fetch calls the threads make
ConcArgs ==
  { [endpoint |-> "questions", page |-> 1, key |-> None, filter |-> "default",
       kwargs |-> NoDict],
    [endpoint |-> "answers", page |-> 1, key |-> None, filter |-> "default",
       kwargs |-> [ids |-> <<1, 2, 3>>]],
    [endpoint |-> "", page |-> 1, key |-> None, filter |-> "default",
       kwargs |-> NoDict] }

\* What the server answers to the threads' requests: a page that declares
\* more, a last page, an error object with and without its companion fields
ConcBodies ==
  { Core1 @@ [has_more |-> TRUE],
    Core2 @@ [has_more |-> FALSE],
    [error_id |-> "502", error_name |-> "throttle_violation",
     error_message |-> "too many requests"],
    [error_id |-> "502"] }

ConcAnswers(endpoint, query) == ServerAnswers(endpoint, query) \cap ConcBodies

\* How a thread's call ends
ThreadRaises(t, e) ==
  thr' = [thr EXCEPT ![t].pc = "done",
                     ![t].outcome = e @@ [kind |-> "raise", op |-> "fetch"]]

\* Thread t calls fetch on the constructed client, up to the loop
thread_fetch(t, a) ==
  /\ pc = "idle"
  /\ thr[t].pc = "ready"
  /\ UNCHANGED <<pc, name, call, trace, outcome, served, writer>>
  /\ IF EndpointMissing(a.endpoint)
       THEN /\ ThreadRaises(t, ValueError("No end point provided."))
            /\ self' = self
       ELSE /\ served < MaxRequests
            /\ self' = [self EXCEPT !._endpoint = a.endpoint]
            /\ thr' = [thr EXCEPT ![t].pc = "loop",
                                  ![t].call = FetchEnter(self, a, "user")]

\* Thread t tests the loop condition and sends its GET
thread_get(t) ==
  /\ thr[t].pc = "loop"
  /\ UNCHANGED <<self, pc, name, call, trace, outcome, writer>>
  /\ IF LoopGuard(thr[t].call.run_cnt, self.max_pages)
       THEN LET c == [thr[t].call EXCEPT !.run_cnt = @ + 1] IN
            /\ thr' = [thr EXCEPT ![t].pc = "wait",
                                  ![t].call = [c EXCEPT !.base_url = FetchUrl(self, c)],
                                  ![t].response = NoDict,
                                  ![t].ok = FALSE]
            /\ served' = served + 1
       ELSE /\ thr' = [thr EXCEPT ![t].pc = "assemble"]
            /\ served' = served

\* Thread t's requests.get raises ConnectionError
thread_connection_error(t) ==
  /\ thr[t].pc = "wait"
  /\ UNCHANGED <<self, pc, name, call, trace, outcome, served, writer>>
  /\ ThreadRaises(t, WrapError(self._previous_call, "connection refused"))

\* Thread t's response arrives and line 194 stores its URL in the shared field
thread_receive(t) ==
  /\ thr[t].pc = "wait"
  /\ UNCHANGED <<pc, name, call, trace, outcome, served>>
  /\ LET url == [path |-> thr[t].call.base_url, query |-> thr[t].call.params]
     IN  /\ self' = SetPreviousCall(self, url)
         /\ writer' = t
         /\ \/ \E response \in ConcAnswers(thr[t].call.endpoint, thr[t].call.params) :
                 thr' = [thr EXCEPT ![t].pc = "got", ![t].url = url,
                                    ![t].response = response, ![t].ok = TRUE]
            \/ thr' = [thr EXCEPT ![t].pc = "got", ![t].url = url,
                                  ![t].response = NoDict, ![t].ok = FALSE]

\* Thread t parses its response and runs the rest of the loop body, reading
\* the shared field as it is now
thread_process(t) ==
  /\ thr[t].pc = "got"
  /\ UNCHANGED <<self, pc, name, call, trace, outcome, served, writer>>
  /\ IF ~thr[t].ok
       THEN ThreadRaises(t, WrapError(self._previous_call, "no JSON"))
       ELSE LET r == LoopBody(thr[t].call, thr[t].response, self._previous_call)
            IN  IF r.exit = "raise"
                  THEN ThreadRaises(t, r.exc)
                  ELSE thr' = [thr EXCEPT ![t].call = r.call,
                                          ![t].pc = IF r.exit = "continue"
                                                      THEN "loop" ELSE "assemble"]

\* Thread t assembles its result
thread_return(t) ==
  /\ thr[t].pc = "assemble"
  /\ UNCHANGED <<self, pc, name, call, trace, outcome, served, writer>>
  /\ LET r == Assemble(thr[t].call)
     IN  IF r.exit = "raise"
           THEN ThreadRaises(t, r.exc)
           ELSE thr' = [thr EXCEPT ![t].pc = "done",
                                   ![t].outcome = [kind |-> "return", op |-> "fetch",
                                                   result |-> r.result]]

\* Construction by one thread, then the two threads' calls interleaved
NextConc ==
  \/ \E a \in CtorArgs : StackAPI_init(a)
  \/ fetch_get
  \/ fetch_connection_error
  \/ fetch_bad_json
  \/ fetch_response
  \/ fetch_return
  \/ \E t \in Threads : \E a \in ConcArgs : thread_fetch(t, a)
  \/ \E t \in Threads : thread_get(t)
  \/ \E t \in Threads : thread_connection_error(t)
  \/ \E t \in Threads : thread_receive(t)
  \/ \E t \in Threads : thread_process(t)
  \/ \E t \in Threads : thread_return(t)

SpecConc == Init /\ [][NextConc]_vars

----------------------------------------------------------------------------
(* Reading the log of the current (or last) call                           *)

IsCall(op) == Len(trace) >= 1 /\ trace[1].ev = "CALL" /\ trace[1].op = op

Args == trace[1].args

\* The endpoint argument is empty or was not given
NoEndpoint(endpoint) == endpoint \in {"", None}

IsRequest(e) == e.ev \in {"GET", "POST"}

IsPage(e) == e.ev = "RESP" /\ e.ok

Count(ev) == Cardinality({i \in 1..Len(trace) : trace[i].ev = ev})

Gets == SelectSeq(trace, LAMBDA e : e.ev = "GET")

Pages == SelectSeq(trace, IsPage)

\* Every request of the call was answered with a parsable body
AllAnswered ==
  \A i \in 1..Len(trace) : trace[i].ev # "FAIL" /\ (trace[i].ev = "RESP" => trace[i].ok)

\* What fetch accumulates for a page: the body, or its value under the sub-key
PageData(body, key) == IF Truthy(key) THEN body[key] ELSE body

RECURSIVE ConcatItems(_, _)
ConcatItems(pages, key) ==
  IF Len(pages) = 0 THEN <<>>
  ELSE ConcatItems(SubSeq(pages, 1, Len(pages) - 1), key)
         \o PageData(pages[Len(pages)].body, key).items

RECURSIVE SumLens(_, _)
SumLens(pages, key) ==
  IF Len(pages) = 0 THEN 0
  ELSE Len(PageData(Head(pages).body, key).items) + SumLens(Tail(pages), key)

RECURSIVE SleepSum(_, _)
\* Seconds slept by the SLEEP events at positions lo..hi of the log
SleepSum(lo, hi) ==
  IF lo > hi THEN 0
  ELSE (IF trace[lo].ev = "SLEEP" THEN trace[lo].secs ELSE 0) + SleepSum(lo + 1, hi)

DigitVal(t) ==
  CASE t = "0" -> 0 [] t = "1" -> 1 [] t = "2" -> 2 [] t = "3" -> 3
    [] t = "4" -> 4 [] t = "5" -> 5 [] t = "6" -> 6 [] t = "7" -> 7
    [] t = "8" -> 8 [] t = "9" -> 9 [] OTHER -> -1

RECURSIVE ParseFrom(_, _, _, _, _)
\* Read text from position i on; cur is the number being read (some is TRUE
\* once it has a digit), acc the numbers read.  <<-1>> for an ill-formed text.
ParseFrom(text, i, cur, some, acc) ==
  IF i > Len(text)
    THEN IF some THEN Append(acc, cur) ELSE <<-1>>
  ELSE IF text[i] = ";"
    THEN IF some THEN ParseFrom(text, i + 1, 0, FALSE, Append(acc, cur)) ELSE <<-1>>
  ELSE IF DigitVal(text[i]) < 0 THEN <<-1>>
  ELSE ParseFrom(text, i + 1, 10 * cur + DigitVal(text[i]), TRUE, acc)

\* The list of ids a ';'-separated path suffix denotes
ParseIds(text) == IF text = <<>> THEN <<>> ELSE ParseFrom(text, 1, 0, FALSE, <<>>)

\* The URL path {base_url}/{endpoint}/ of the call, before any ids
EndpointPath == <<"https://api.stackexchange.com/", self._version, "/", Args.endpoint, "/">>

\* path is EndpointPath followed by the ids, ';'-joined in the given order
PathCarriesIds(path, ids) ==
  /\ Len(path) >= Len(EndpointPath)
  /\ SubSeq(path, 1, Len(EndpointPath)) = EndpointPath
  /\ ParseIds(SubSeq(path, Len(EndpointPath) + 1, Len(path))) = ids
  /\ (ids = <<1, 2, 3>> => SubSeq(path, Len(EndpointPath) + 1, Len(path))
                             = <<"1", ";", "2", ";", "3">>)

HasErrorId(e) == IsPage(e) /\ Has(e.body, "error_id")

\* The call ended with StackAPIError carrying the error fields of body
RaisedApiErrorOf(body) ==
  /\ pc = "idle"
  /\ outcome.kind = "raise"
  /\ outcome.exc = "StackAPIError"
  /\ outcome.error = body.error_id
  /\ (Has(body, "error_name") => outcome.code = body.error_name)
  /\ (Has(body, "error_message") => outcome.message = body.error_message)

InDirectory(n) == \E i \in 1..Len(SiteDirectory) : SiteDirectory[i].api_site_parameter = n

DirEntry(n) ==
  SiteDirectory[CHOOSE i \in 1..Len(SiteDirectory) : SiteDirectory[i].api_site_parameter = n]

----------------------------------------------------------------------------
(* Claims                                                                  *)

\* C1: when fetch returns, result.items is the concatenation, in fetch
\* order, of the items of every page received in the call (a page's data
\* being the body, or its value under the sub-key), and its length is the
\* sum of the pages' items lengths.
C1_ItemsAreConcatenation ==
  (IsCall("fetch") /\ outcome.kind = "return") =>
     /\ outcome.result.items = ConcatItems(Pages, Args.key)
     /\ Len(outcome.result.items) = SumLens(Pages, Args.key)

C1_Witness ==
  /\ IsCall("fetch") /\ outcome.kind = "return"
  /\ Len(Pages) >= 2
  /\ outcome.result.items = <<1, 2, 3>>

\* C2 (as claimed): a fetch call issues at most max_pages GET requests.
C2_RequestsAtMostMaxPages ==
  IsCall("fetch") => Count("GET") <= self.max_pages

\* C3 (as claimed): in fetch, a page whose body contains error_id ends the
\* call at once with StackAPIError carrying that page's error fields: nothing
\* is requested after it and no result is returned, whichever other fields
\* the body has.
C3_ErrorIdAlwaysRaises ==
  IsCall("fetch") =>
    \A i \in 1..Len(trace) :
      HasErrorId(trace[i]) => (i = Len(trace) /\ RaisedApiErrorOf(trace[i].body))

\* C4: in fetch (the constructor's lookup included), between a response that
\* carries backoff = N and any later request of the call, at least N + 1
\* seconds are slept.
C4_BackoffSleepBeforeNextRequest ==
  (IsCall("fetch") \/ IsCall("__init__")) =>
    \A i \in 1..Len(trace) : \A j \in (i + 1)..Len(trace) :
      (IsPage(trace[i]) /\ Has(trace[i].body, "backoff") /\ IsRequest(trace[j]))
        => SleepSum(i + 1, j - 1) >= trace[i].body.backoff + 1

C4_Witness ==
  /\ IsCall("fetch")
  /\ \E i \in 1..Len(trace) : \E j \in (i + 1)..Len(trace) :
       /\ IsPage(trace[i]) /\ Has(trace[i].body, "backoff")
       /\ trace[i].body.backoff = 2
       /\ trace[j].ev = "GET"

\* C5: the k-th GET of a fetch call started at page p carries page = p + k - 1,
\* so consecutive requests differ by exactly 1 and no page is requested twice.
C5_PageParameterSequence ==
  (IsCall("fetch") /\ ~NoEndpoint(Args.endpoint)) =>
     /\ \A k \in 1..Len(Gets) : Gets[k].query.page = Args.page + k - 1
     /\ \A k, m \in 1..Len(Gets) : k # m => Gets[k].query.page # Gets[m].query.page

C5_Witness ==
  /\ IsCall("fetch") /\ ~NoEndpoint(Args.endpoint)
  /\ Args.page = 2
  /\ Len(Gets) >= 3

\* C6 (as claimed): a send_data call with a non-empty endpoint issues exactly
\* one POST, no GET and no sleep, and a response containing error_id makes
\* the call fail with StackAPIError.
C6_SendDataSinglePost ==
  (IsCall("send_data") /\ ~NoEndpoint(Args.endpoint)) =>
     /\ Count("POST") = 1
     /\ Count("GET") = 0
     /\ Count("SLEEP") = 0
     /\ \A i \in 1..Len(trace) :
          HasErrorId(trace[i]) => RaisedApiErrorOf(trace[i].body)

\* C7 (as claimed): once construction has ended, with the directory listing
\* served on every request: a name that matches no entry of the site
\* directory makes it fail with ValueError, and a name that matches an entry
\* (on whichever page, for any max_pages) makes it succeed with _name and
\* _api_key taken from that entry.
C7_ConstructionResolvesDirectorySites ==
  (IsCall("__init__") /\ pc \in {"idle", "dead"} /\ AllAnswered) =>
     IF InDirectory(Args.name)
       THEN /\ pc = "idle"
            /\ outcome.kind = "return"
            /\ self._name = DirEntry(Args.name).name
            /\ self._api_key = DirEntry(Args.name).api_site_parameter
       ELSE /\ pc = "dead"
            /\ outcome.kind = "raise"
            /\ outcome.exc = "ValueError"

\* C8: in a fetch call given an ids list, every GET goes to the path
\* {base_url}{endpoint}/ followed by the ids joined with ';' in their order,
\* and no GET has an 'ids' query parameter.
C8_FetchIdsInPath ==
  (IsCall("fetch") /\ ~NoEndpoint(Args.endpoint) /\ Has(Args.kwargs, "ids")) =>
     \A i \in 1..Len(trace) :
       trace[i].ev = "GET" =>
         /\ PathCarriesIds(trace[i].path, Args.kwargs.ids)
         /\ ~Has(trace[i].query, "ids")

C8_Witness ==
  /\ IsCall("fetch")
  /\ Has(Args.kwargs, "ids") /\ Args.kwargs.ids = <<100, 7>>
  /\ Len(Gets) >= 2

\* C9 (as claimed): in a send_data call given an ids list, the POST goes to
\* the path {base_url}{endpoint}/ followed by the ids joined with ';', and
\* 'ids' is not among the form parameters.
C9_SendDataIdsInPath ==
  (IsCall("send_data") /\ ~NoEndpoint(Args.endpoint) /\ Has(Args.kwargs, "ids")) =>
     \A i \in 1..Len(trace) :
       trace[i].ev = "POST" =>
         /\ PathCarriesIds(trace[i].path, Args.kwargs.ids)
         /\ ~Has(trace[i].form, "ids")

\* C10: a fetch or send_data call with an empty or missing endpoint raises
\* ValueError without issuing a request and leaves every field of the client
\* as it was.
C10_EmptyEndpointRejected ==
  [][ (pc = "idle" /\ NoEndpoint(trace'[1].args.endpoint)) =>
        /\ self' = self
        /\ pc' = "idle"
        /\ Len(trace') = 1
        /\ served' = served
        /\ outcome'.kind = "raise"
        /\ outcome'.exc = "ValueError" ]_vars

C10_Witness ==
  /\ pc = "idle"
  /\ IsCall("fetch") \/ IsCall("send_data")
  /\ NoEndpoint(Args.endpoint)
  /\ outcome.kind = "raise" /\ outcome.exc = "ValueError"
  /\ self._previous_call # NoDict
  /\ self._endpoint = "answers"


\* The request failed in transport, or its body could not be parsed
IsFailure(e) == e.ev = "FAIL" \/ (e.ev = "RESP" /\ ~e.ok)

\* The URL of the last GET of the call
LastGetUrl == [path |-> Gets[Len(Gets)].path, query |-> Gets[Len(Gets)].query]

\* The body of the last page received in the call
LastBody == Pages[Len(Pages)].body

\* The body says has_more = true
MoreDeclared(b) == "has_more" \in DOMAIN b /\ b.has_more = TRUE

FetchReturned == IsCall("fetch") /\ outcome.kind = "return"

\* C11: in fetch (the constructor's lookup included), a connection error or
\* an unparsable body on any request ends the call at once with StackAPIError
\* whose error, code and message are all the error text: nothing is requested
\* after it and no result (so none of the earlier pages' items) is returned.
C11_TransportFailureAborts ==
  (IsCall("fetch") \/ IsCall("__init__")) =>
    \A i \in 1..Len(trace) :
      IsFailure(trace[i]) =>
        /\ i = Len(trace)
        /\ pc \in {"idle", "dead"}
        /\ outcome.kind = "raise"
        /\ outcome.exc = "StackAPIError"
        /\ outcome.error = trace[i].text
        /\ outcome.code = trace[i].text
        /\ outcome.message = trace[i].text

C11_Witness ==
  /\ IsCall("fetch")
  /\ Count("GET") >= 2
  /\ Len(Pages) >= 1
  /\ IsFailure(trace[Len(trace)])
  /\ outcome.kind = "raise"

\* C12 (as claimed): every StackAPIError a fetch call raises carries the URL
\* of the request issued in the iteration that raised.
C12_ErrorCarriesFailingUrl ==
  (IsCall("fetch") /\ outcome.kind = "raise" /\ outcome.exc = "StackAPIError")
    => outcome.url = LastGetUrl

\* C13: when fetch returns, quota_max, quota_remaining and has_more are those
\* of the last page's data, backoff is the last response's backoff (0 if it
\* has none) and total is the last response's total (0 if it has none),
\* whatever earlier pages declared.
C13_EnvelopeFromLastPage ==
  FetchReturned =>
    LET r == outcome.result
        d == PageData(LastBody, Args.key)
    IN  /\ r.quota_max = d.quota_max
        /\ r.quota_remaining = d.quota_remaining
        /\ r.has_more = d.has_more
        /\ r.backoff = (IF "backoff" \in DOMAIN LastBody THEN LastBody.backoff ELSE 0)
        /\ r.total = (IF "total" \in DOMAIN LastBody THEN LastBody.total ELSE 0)

C13_Witness ==
  /\ FetchReturned
  /\ Len(Pages) >= 2
  /\ "total" \in DOMAIN Pages[1].body
  /\ "total" \notin DOMAIN LastBody
  /\ outcome.result.total = 0

\* C14 (as claimed): when fetch returns, result.page is the page parameter of
\* the last request issued, start page + number of requests - 1.
C14_PageIsLastRequested ==
  FetchReturned =>
    /\ outcome.result.page = Gets[Len(Gets)].query.page
    /\ outcome.result.page = Args.page + Len(Gets) - 1

\* C14 (amended): when fetch returns, result.page is the final value of the
\* page parameter: the page of the last request if the last response did not
\* declare has_more, and one more than it if it did.
C14_PageIsFinalParameter ==
  FetchReturned =>
    outcome.result.page =
      Gets[Len(Gets)].query.page + (IF MoreDeclared(LastBody) THEN 1 ELSE 0)

C14_Witness ==
  /\ FetchReturned
  /\ MoreDeclared(LastBody)
  /\ Len(Gets) = 2
  /\ outcome.result.page = Args.page + 2

\* C15: a fetch call leaves its loop after a response that declared has_more
\* only when at least max_pages requests have been issued in the call.
C15_NoEarlyStop ==
  (IsCall("fetch") /\ (pc = "assemble" \/ outcome.kind = "return")
     /\ Len(Pages) >= 1 /\ MoreDeclared(LastBody))
    => Count("GET") >= self.max_pages

C15_Witness ==
  /\ FetchReturned
  /\ MoreDeclared(LastBody)
  /\ self.max_pages = 1
  /\ Count("GET") = 2


\* The client's fields other than those named
Frame(s, names) == [k \in DOMAIN s \ names |-> s[k]]

\* The step belongs to a fetch or send_data call of a constructed client
UserCallStep == pc # "new" /\ trace'[1].op \in {"fetch", "send_data"}

\* C16 (as claimed): a fetch or send_data call changes no field of the client
\* other than _previous_call.
C16_OnlyLastUrlChanges ==
  [][ UserCallStep =>
        Frame(self', {"_previous_call"}) = Frame(self, {"_previous_call"}) ]_vars

\* C16 (amended): a fetch or send_data call changes no field of the client
\* other than _previous_call and _endpoint.
C16_OnlyLastUrlAndEndpointChange ==
  [][ UserCallStep =>
        Frame(self', {"_previous_call", "_endpoint"})
          = Frame(self, {"_previous_call", "_endpoint"}) ]_vars

C16_Witness ==
  /\ FetchReturned
  /\ self._endpoint = "answers"
  /\ self._previous_call = LastGetUrl
  /\ self._api_key = "serverfault"

\* Number of GETs among the first i events of the log
GetsUpTo(i) == Cardinality({j \in 1..i : trace[j].ev = "GET"})

\* The page of the listing carries an entry for site n
ListsSite(body, n) ==
  \E k \in 1..Len(body.items) : body.items[k].api_site_parameter = n

\* C17 (as claimed): in the constructor's lookup, no request is issued once a
\* retrieved page of the listing contains an entry matching the name.
C17_LookupStopsAtMatch ==
  IsCall("__init__") =>
    \A i \in 1..Len(trace) : \A j \in (i + 1)..Len(trace) :
      ~(IsPage(trace[i]) /\ ListsSite(trace[i].body, Args.name)
          /\ trace[j].ev = "GET")

\* C17 (amended): the constructor's lookup requests the next page after every
\* page that declares has_more while fewer than max_pages requests have been
\* issued, whether or not a matching entry was already retrieved; a client
\* is constructed only if some retrieved page lists the name.
C17_LookupFetchesRegardlessOfMatch ==
  (IsCall("__init__") /\ pc # "loop") =>
    /\ \A i \in 1..Len(trace) :
         (IsPage(trace[i]) /\ MoreDeclared(trace[i].body)
            /\ GetsUpTo(i) < self.max_pages)
           => (i < Len(trace) /\ trace[i + 1].ev = "GET")
    /\ pc = "idle" =>
         \E i \in 1..Len(trace) :
           IsPage(trace[i]) /\ ListsSite(trace[i].body, Args.name)

C17_Witness ==
  /\ IsCall("__init__") /\ pc = "idle"
  /\ self.max_pages = 2
  /\ IsPage(trace[3]) /\ ListsSite(trace[3].body, Args.name)
  /\ Count("GET") = 3

\* C19: every request of a fetch or send_data call carries site = the
\* client's resolved _api_key, also when the caller passes a 'site' of its
\* own; the requests of the constructor's lookup carry no site.
C19_SiteOnEveryRequest ==
  /\ (IsCall("fetch") \/ IsCall("send_data")) =>
       /\ InDirectory(self._api_key)
       /\ \A i \in 1..Len(trace) :
            /\ trace[i].ev = "GET" =>
                 ("site" \in DOMAIN trace[i].query /\ trace[i].query.site = self._api_key)
            /\ trace[i].ev = "POST" =>
                 ("site" \in DOMAIN trace[i].form /\ trace[i].form.site = self._api_key)
  /\ IsCall("__init__") =>
       \A i \in 1..Len(trace) :
         trace[i].ev = "GET" => "site" \notin DOMAIN trace[i].query

C19_Witness ==
  /\ IsCall("fetch")
  /\ "site" \in DOMAIN Args.kwargs /\ Args.kwargs.site = "evil"
  /\ Count("GET") >= 2
  /\ trace[2].query.site = "stackoverflow"


\* A call is under way
Running == pc \in {"loop", "wait", "assemble"}

\* Each transport call returns (with a body or an exception) and the steps
\* of the running call are taken
Fairness ==
  /\ WF_vars(fetch_get)
  /\ WF_vars(fetch_connection_error \/ fetch_bad_json \/ fetch_response)
  /\ WF_vars(fetch_return)

FairSpec == Spec /\ Fairness

\* C18: every fetch call (the constructor's lookup included) that is under
\* way ends, with a result or an exception, and issues at most max_pages + 1
\* requests whatever the server answers.
C18_FetchTerminates ==
  /\ [](IsCall("fetch") \/ IsCall("__init__") => Count("GET") <= self.max_pages + 1)
  /\ (Running ~> (pc \in {"idle", "dead"}))

C18_Witness ==
  /\ FetchReturned
  /\ MoreDeclared(LastBody)
  /\ Count("GET") = self.max_pages + 1


\* Thread t's call ended with StackAPIError for a response carrying error_id
ThreadRaisedForErrorId(t) ==
  /\ thr[t].pc = "done"
  /\ thr[t].ok
  /\ Has(thr[t].response, "error_id")
  /\ thr[t].outcome.kind = "raise"
  /\ thr[t].outcome.exc = "StackAPIError"

\* C20 as stated: under every interleaving of two fetch calls on one client,
\* a StackAPIError raised by a call for an error_id response carries the URL
\* of that call's own request.
C20_ErrorCarriesOwnUrl ==
  \A t \in Threads : ThreadRaisedForErrorId(t) => thr[t].outcome.url = thr[t].url

\* C20, amended: a StackAPIError raised by a call for an error_id response
\* carries the URL the shared field holds when the error is raised, which is
\* the URL of the request whose response was received last, by this call or
\* by the other one.
C20_ErrorCarriesLastWrittenUrl ==
  [][\A t \in Threads :
       (/\ thr[t].pc = "got"
        /\ thr[t].ok
        /\ Has(thr[t].response, "error_id")
        /\ thr'[t].pc = "done"
        /\ thr'[t].outcome.kind = "raise"
        /\ thr'[t].outcome.exc = "StackAPIError")
       => /\ writer \in Threads
          /\ thr'[t].outcome.url = thr[writer].url]_vars

\* A call raised for its error_id response after the other call's response
\* had arrived, and its error carries the other call's URL
C20_Witness ==
  \E t \in Threads :
    /\ ThreadRaisedForErrorId(t)
    /\ writer \in Threads \ {t}
    /\ thr[writer].url # thr[t].url
    /\ thr[t].outcome.url = thr[writer].url

====
